---- MODULE Spec2Model ----
(***************************************************************************)
(* Model of the tensor record store of scripts/tensor.py (Tensor, Command, *)
(* TensorManager), of the baseline snapshot written by                     *)
(* scripts/automated_analysis.py and of the edit service scripts/webapp.py *)
(*                                                                         *)
(* Python objects live in a heap: the manager (a dict) maps a tensor id to *)
(* a Tensor object, and a Command made by inactivate_tensor /              *)
(* update_centroid / update_marker holds the bound method of the Tensor    *)
(* OBJECT it was issued for, not the id.                                   *)
(***************************************************************************)
EXTENDS Integers, Sequences, FiniteSets, TLC

\* ------------------------------------------------------------------ bounds
\* most commands applied at a time (the history is unbounded in the code)
MaxCmds == 2
\* most starts of the edit service over one directory
MaxSessions == 2

\* Ids the pipeline gives to baseline tensors.
BaselineIds == {1}
\* Ids a caller may pass to an edit operation (known and unknown ones).
RequestIds == 1..(1 + MaxCmds)
\* Row/column pairs a caller may pass as centroid and as marker.
Centroids == {<<0, 0>>, <<1, 10>>}
Markers == {<<3, 5>>, <<100, 8>>}
\* Centroids and markers the segmentation finds for the baseline tensors.
SegmentedCentroids == {<<0, 0>>}
SegmentedMarkers == {<<3, 5>>}

RAW_TENSORS_FNAME == "raw_tensors.txt"
AUDIT_LOG_FNAME == "audit.log"

VARIABLES
    heap,            \* Tensor objects of the process: ref -> Tensor._data
    store,           \* the TensorManager as a dict: tensor_id -> ref
    commands,        \* TensorManager.commands
    command_offset,  \* TensorManager.command_offset
    ret,             \* the last call: its name, the exception raised, the value returned
    files,           \* the directory: file name -> sequence of lines
    phase,           \* "baseline" | "edit" | "serving" | "threaded"
    session,         \* how many times the edit service has been started
    inflight         \* the request each thread of the server is handling

vars == <<heap, store, commands, command_offset, ret, files, phase, session,
          inflight>>

\* ------------------------------------------------------------------ Python helpers
None == <<>>
Some(v) == <<v>>

Max(S) == CHOOSE x \in S : \A y \in S : y <= x

RECURSIVE Sorted(_)
\* sorted(ids)
Sorted(S) ==
    IF S = {} THEN <<>>
    ELSE LET m == Max(S) IN Append(Sorted(S \ {m}), m)

\* seq[:k] for k # 0
SliceTo(seq, k) ==
    IF k < 0 THEN SubSeq(seq, 1, IF Len(seq) + k < 0 THEN 0 ELSE Len(seq) + k)
    ELSE SubSeq(seq, 1, IF k > Len(seq) THEN Len(seq) ELSE k)

\* the 1-based position of seq[i], Python index i (negative counts from the end)
PyIndex(seq, i) == IF i < 0 THEN Len(seq) + i + 1 ELSE i + 1

\* json.dumps of a dict whose keys were inserted in the order `keys`:
\* the text is the sequence of its key/value pairs.
JsonDumps(d, keys) == [i \in 1..Len(keys) |-> <<keys[i], d[keys[i]]>>]

\* json.loads: the dict of a text (a later pair of the same key wins)
JsonLoads(line) ==
    [k \in {line[i][1] : i \in DOMAIN line} |->
        line[CHOOSE i \in DOMAIN line :
                /\ line[i][1] = k
                /\ \A j \in DOMAIN line : j > i => line[j][1] # k][2]]

\* d.pop(key): the dict without the key
DictPop(d, key) == [k \in DOMAIN d \ {key} |-> d[k]]

\* ------------------------------------------------------------------ Tensor
TensorKeys == <<"tensor_id", "centroid", "marker", "creation_type", "active">>

\* Tensor.__init__: the _data dict
Tensor(tensor_id, centroid, marker, creation_type) ==
    [tensor_id |-> tensor_id, centroid |-> centroid, marker |-> marker,
     creation_type |-> creation_type, active |-> TRUE]

\* Tensor.__eq__
TensorEq(a, b) == a = b

\* Tensor.json
TensorJson(t) == JsonDumps(t, TensorKeys)

\* from_json that leaves active as __init__ sets it
TensorFromJsonActive(line) ==
    LET d == JsonLoads(line)
    IN Tensor(d["tensor_id"], d["centroid"], d["marker"], d["creation_type"])

\* from_json that takes the marker for the centroid and the centroid for the marker
TensorFromJsonSwapped(line) ==
    LET d == JsonLoads(line)
        tensor == Tensor(d["tensor_id"], d["marker"], d["centroid"], d["creation_type"])
    IN [tensor EXCEPT !["active"] = d["active"]]

\* Tensor.from_json
TensorFromJson(line) ==
    LET d == JsonLoads(line)
        tensor == Tensor(d["tensor_id"], d["centroid"], d["marker"], d["creation_type"])
    IN [tensor EXCEPT !["active"] = d["active"]]

\* Tensor.update on the object at ref: the heap afterwards and the json returned
TensorUpdate(h, ref, name, value) ==
    LET h2 == [h EXCEPT ![ref] = [k \in DOMAIN h[ref] \cup {name} |->
                                     IF k = name THEN value ELSE h[ref][k]]]
        d == [tensor_id |-> h2[ref]["tensor_id"], action |-> "update"]
        d2 == [k \in DOMAIN d \cup {name} |-> IF k = name THEN value ELSE d[k]]
    IN [heap |-> h2, json |-> JsonDumps(d2, <<"tensor_id", "action", name>>)]

\* ------------------------------------------------------------------ TensorManager
\* TensorManager.__init__ in a process whose heap is h
NewManager(h) == [heap |-> h, store |-> <<>>, commands |-> <<>>, command_offset |-> 0]

\* the result of a call: the manager afterwards, the exception raised ("" for
\* none) and the value returned (None, or Some(v))
Result(tm, raised, value) == [tm |-> tm, raised |-> raised, value |-> value]

\* the records of the manager: tensor_id -> _data
Records(tm) == [id \in DOMAIN tm.store |-> tm.heap[tm.store[id]]]

\* TensorManager.__eq__
ManagerEq(self, other) ==
    IF Cardinality(DOMAIN self.store) # Cardinality(DOMAIN other.store) THEN FALSE
    ELSE \A key \in DOMAIN self.store :
            /\ key \in DOMAIN other.store
            /\ TensorEq(self.heap[self.store[key]], other.heap[other.store[key]])

\* TensorManager.identifiers
Identifiers(tm) == Sorted(DOMAIN tm.store)

\* audit_log that does not exclude the undone commands
AuditLogWithUndone(tm) == tm.commands

\* TensorManager.audit_log: the commands excluding undone ones
AuditLog(tm) ==
    LET num_commands == Len(tm.commands) + tm.command_offset
    IN [i \in 1..num_commands |-> tm.commands[i]]

\* create_tensor whose entry also names the object it allocated
CreateTensorLogsObject(tm, tensor_id, centroid, marker, creation_type) ==
    LET ref == Len(tm.heap) + 1
        t == Tensor(tensor_id, centroid, marker, creation_type)
        d == [k \in DOMAIN t \cup {"action", "object"} |->
                 IF k = "action" THEN "create" ELSE IF k = "object" THEN ref ELSE t[k]]
        tm2 == [tm EXCEPT !.heap = Append(tm.heap, t),
                          !.store = [id \in DOMAIN tm.store \cup {tensor_id} |->
                                        IF id = tensor_id THEN ref ELSE tm.store[id]]]
    IN Result(tm2, "", Some(JsonDumps(d, TensorKeys \o <<"action", "object">>)))

\* TensorManager.create_tensor
CreateTensor(tm, tensor_id, centroid, marker, creation_type) ==
    LET ref == Len(tm.heap) + 1
        t == Tensor(tensor_id, centroid, marker, creation_type)
        d == [k \in DOMAIN t \cup {"action"} |-> IF k = "action" THEN "create" ELSE t[k]]
        tm2 == [tm EXCEPT !.heap = Append(tm.heap, t),
                          !.store = [id \in DOMAIN tm.store \cup {tensor_id} |->
                                        IF id = tensor_id THEN ref ELSE tm.store[id]]]
    IN Result(tm2, "", Some(JsonDumps(d, Append(TensorKeys, "action"))))

\* _delete_tensor that removes the record before tensor_id instead
DeleteTensorBefore(tm, tensor_id) ==
    IF tensor_id - 1 \notin DOMAIN tm.store THEN Result(tm, "KeyError", None)
    ELSE Result([tm EXCEPT !.store = [id \in DOMAIN tm.store \ {tensor_id - 1} |-> tm.store[id]]],
                "", None)

\* TensorManager._delete_tensor
DeleteTensor(tm, tensor_id) ==
    IF tensor_id \notin DOMAIN tm.store THEN Result(tm, "KeyError", None)
    ELSE Result([tm EXCEPT !.store = [id \in DOMAIN tm.store \ {tensor_id} |-> tm.store[id]]],
                "", None)

\* Command.__init__; self is the object the methods are bound to (0: the manager)
Command(do_method, undo_method, self, do_args, undo_args) ==
    [do_method |-> do_method, undo_method |-> undo_method, self |-> self,
     do_args |-> do_args, undo_args |-> undo_args, audit_log |-> None]

\* a bound method called with its arguments
Call(tm, method, self, args) ==
    IF method = "create_tensor" THEN CreateTensor(tm, args[1], args[2], args[3], args[4])
    ELSE IF method = "_delete_tensor" THEN DeleteTensor(tm, args[1])
    ELSE LET u == TensorUpdate(tm.heap, self, args[1], args[2])
         IN Result([tm EXCEPT !.heap = u.heap], "", Some(u.json))

\* Command.do of the command at position pos of tm.commands
CommandDo(tm, pos) ==
    LET cmd == tm.commands[pos]
        r == Call(tm, cmd.do_method, cmd.self, cmd.do_args)
    IN Result([r.tm EXCEPT !.commands[pos].audit_log = r.value], r.raised, r.value)

\* Command.undo of the command at position pos of tm.commands
CommandUndo(tm, pos) ==
    LET cmd == tm.commands[pos]
    IN Call(tm, cmd.undo_method, cmd.self, cmd.undo_args)

\* run_command without the clipping of the undone commands
RunCommandKeepsUndone(tm, cmd) ==
    LET pushed == [tm EXCEPT !.commands = Append(tm.commands, cmd)]
        r == CommandDo(pushed, Len(pushed.commands))
    IN Result(r.tm, r.raised, r.tm.commands[Len(r.tm.commands)].audit_log)

\* TensorManager.run_command; returns cmd.audit_log as the callers do
RunCommand(tm, cmd) ==
    LET clipped == IF tm.command_offset # 0
                   THEN [tm EXCEPT !.commands = SliceTo(tm.commands, tm.command_offset),
                                   !.command_offset = 0]
                   ELSE tm
        pushed == [clipped EXCEPT !.commands = Append(clipped.commands, cmd)]
        r == CommandDo(pushed, Len(pushed.commands))
    IN Result(r.tm, r.raised, r.tm.commands[Len(r.tm.commands)].audit_log)

\* undo whose check forgets the -1 of cmd_index: with nothing applied it
\* indexes commands out of range
UndoOffByOne(tm) ==
    LET cmd_index == -1 + tm.command_offset
        pos == PyIndex(tm.commands, cmd_index)
    IN IF Len(tm.commands) + tm.command_offset < 0 THEN Result(tm, "", None)
       ELSE IF pos < 1 THEN Result(tm, "IndexError", None)
       ELSE LET r == CommandUndo(tm, pos)
            IN IF r.raised # "" THEN Result(tm, r.raised, None)
               ELSE Result([r.tm EXCEPT !.command_offset = @ - 1], "", r.value)

\* undo that moves command_offset also when there is nothing to undo
UndoAlwaysMoves(tm) ==
    LET cmd_index == -1 + tm.command_offset
    IN IF Len(tm.commands) + cmd_index < 0
       THEN Result([tm EXCEPT !.command_offset = @ - 1], "", None)
       ELSE LET r == CommandUndo(tm, PyIndex(tm.commands, cmd_index))
            IN IF r.raised # "" THEN Result(tm, r.raised, None)
               ELSE Result([r.tm EXCEPT !.command_offset = @ - 1], "", r.value)

\* undo that takes the first command of the history for not undoable
UndoStopsEarly(tm) ==
    LET cmd_index == -1 + tm.command_offset
    IN IF Len(tm.commands) + cmd_index <= 0 THEN Result(tm, "", None)
       ELSE LET r == CommandUndo(tm, PyIndex(tm.commands, cmd_index))
            IN IF r.raised # "" THEN Result(tm, r.raised, None)
               ELSE Result([r.tm EXCEPT !.command_offset = @ - 1], "", r.value)

\* TensorManager.undo
Undo(tm) ==
    LET cmd_index == -1 + tm.command_offset
    IN IF Len(tm.commands) + cmd_index < 0 THEN Result(tm, "", None)
       ELSE LET r == CommandUndo(tm, PyIndex(tm.commands, cmd_index))
            IN IF r.raised # "" THEN Result(tm, r.raised, None)
               ELSE Result([r.tm EXCEPT !.command_offset = @ - 1], "", r.value)

\* redo whose check is command_offset > 0: at offset 0 it runs commands[0]
RedoGuardPositive(tm) ==
    IF tm.command_offset > 0 THEN Result(tm, "", None)
    ELSE LET pos == PyIndex(tm.commands, tm.command_offset)
         IN IF pos > Len(tm.commands) THEN Result(tm, "IndexError", None)
            ELSE LET r == CommandDo(tm, pos)
                 IN Result([r.tm EXCEPT !.command_offset = @ + 1], r.raised, r.value)

\* redo that re-executes the command and leaves command_offset as it is
RedoKeepsOffset(tm) ==
    IF tm.command_offset >= 0 THEN Result(tm, "", None)
    ELSE LET r == CommandDo(tm, PyIndex(tm.commands, tm.command_offset))
         IN IF r.raised # "" THEN Result(tm, r.raised, None)
            ELSE Result(r.tm, "", r.value)

\* TensorManager.redo
Redo(tm) ==
    IF tm.command_offset >= 0 THEN Result(tm, "", None)
    ELSE LET cmd_index == tm.command_offset
             r == CommandDo(tm, PyIndex(tm.commands, cmd_index))
         IN IF r.raised # "" THEN Result(tm, r.raised, None)
            ELSE Result([r.tm EXCEPT !.command_offset = @ + 1], "", r.value)

\* add_tensor that numbers the new tensor by the count of the ids
AddTensorCountsIds(tm, centroid, marker) ==
    IF DOMAIN tm.store = {} THEN Result(tm, "ValueError", None)
    ELSE LET ids == Identifiers(tm)
             tensor_id == Len(ids) + 1
             cmd == Command("create_tensor", "_delete_tensor", 0,
                            <<tensor_id, centroid, marker, "manual">>, <<tensor_id>>)
         IN RunCommand(tm, cmd)

\* add_tensor that numbers from 1 on an empty store
AddTensorStartsAtOne(tm, centroid, marker) ==
    LET ids == Identifiers(tm)
        tensor_id == IF ids = <<>> THEN 1 ELSE ids[Len(ids)] + 1
        cmd == Command("create_tensor", "_delete_tensor", 0,
                       <<tensor_id, centroid, marker, "manual">>, <<tensor_id>>)
    IN RunCommand(tm, cmd)

\* TensorManager.add_tensor
AddTensor(tm, centroid, marker) ==
    IF DOMAIN tm.store = {} THEN Result(tm, "ValueError", None)
    ELSE LET ids == Identifiers(tm)
             tensor_id == ids[Len(ids)] + 1
             cmd == Command("create_tensor", "_delete_tensor", 0,
                            <<tensor_id, centroid, marker, "manual">>, <<tensor_id>>)
         IN RunCommand(tm, cmd)

\* inactivate_tensor that looks the tensor up with a default and skips an
\* unknown id
InactivateTensorSkipsUnknown(tm, tensor_id) ==
    IF tensor_id \notin DOMAIN tm.store THEN Result(tm, "", None)
    ELSE LET tensor == tm.store[tensor_id]
             cmd == Command("update", "update", tensor,
                            <<"active", FALSE>>, <<"active", TRUE>>)
         IN RunCommand(tm, cmd)

\* TensorManager.inactivate_tensor
InactivateTensor(tm, tensor_id) ==
    IF tensor_id \notin DOMAIN tm.store THEN Result(tm, "KeyError", None)
    ELSE LET tensor == tm.store[tensor_id]
             cmd == Command("update", "update", tensor,
                            <<"active", FALSE>>, <<"active", TRUE>>)
         IN RunCommand(tm, cmd)

\* update_centroid that clips the undone commands before it looks the id up
UpdateCentroidClipsFirst(tm, tensor_id, new_position) ==
    LET clipped == IF tm.command_offset # 0
                   THEN [tm EXCEPT !.commands = SliceTo(tm.commands, tm.command_offset),
                                   !.command_offset = 0]
                   ELSE tm
    IN IF tensor_id \notin DOMAIN tm.store THEN Result(clipped, "KeyError", None)
       ELSE LET tensor == tm.store[tensor_id]
                prev_position == tm.heap[tensor]["centroid"]
                cmd == Command("update", "update", tensor,
                               <<"centroid", new_position>>, <<"centroid", prev_position>>)
            IN RunCommand(tm, cmd)

\* TensorManager.update_centroid
UpdateCentroid(tm, tensor_id, new_position) ==
    IF tensor_id \notin DOMAIN tm.store THEN Result(tm, "KeyError", None)
    ELSE LET tensor == tm.store[tensor_id]
             prev_position == tm.heap[tensor]["centroid"]
             cmd == Command("update", "update", tensor,
                            <<"centroid", new_position>>, <<"centroid", prev_position>>)
         IN RunCommand(tm, cmd)

\* TensorManager.update_marker
UpdateMarker(tm, tensor_id, new_position) ==
    IF tensor_id \notin DOMAIN tm.store THEN Result(tm, "KeyError", None)
    ELSE LET tensor == tm.store[tensor_id]
             prev_position == tm.heap[tensor]["marker"]
             cmd == Command("update", "update", tensor,
                            <<"marker", new_position>>, <<"marker", prev_position>>)
         IN RunCommand(tm, cmd)

\* ------------------------------------------------------------------ files
\* TensorManager.write_raw_tensors: the lines written
WriteRawTensors(tm) ==
    LET ids == Identifiers(tm)
        automated == SelectSeq(ids, LAMBDA id :
                         tm.heap[tm.store[id]]["creation_type"] = "automated")
    IN [i \in 1..Len(automated) |-> TensorJson(tm.heap[tm.store[automated[i]]])]

\* write_audit_log that writes the newest entry first
WriteAuditLogNewestFirst(tm) ==
    LET log == AuditLog(tm)
    IN [i \in 1..Len(log) |-> log[Len(log) + 1 - i].audit_log[1]]

\* TensorManager.write_audit_log: the lines written
WriteAuditLog(tm) ==
    LET log == AuditLog(tm)
    IN [i \in 1..Len(log) |-> log[i].audit_log[1]]

RECURSIVE ReadRawTensors(_, _)
\* TensorManager.read_raw_tensors
ReadRawTensors(tm, lines) ==
    IF lines = <<>> THEN tm
    ELSE LET tensor == TensorFromJson(Head(lines))
             ref == Len(tm.heap) + 1
             tm2 == [tm EXCEPT !.heap = Append(tm.heap, tensor),
                               !.store = [id \in DOMAIN tm.store \cup {tensor["tensor_id"]} |->
                                   IF id = tensor["tensor_id"] THEN ref ELSE tm.store[id]]]
         IN ReadRawTensors(tm2, Tail(lines))

\* apply_json that records the entry it applies in the history
ApplyJsonRecordsCommand(tm, line) ==
    LET d0 == JsonLoads(line)
        tm2 == [tm EXCEPT !.commands =
                   Append(@, [Command("apply_json", "", 0, <<>>, <<>>)
                                 EXCEPT !.audit_log = Some(line)])]
    IN IF "action" \notin DOMAIN d0 THEN Result(tm, "KeyError", None)
       ELSE IF d0["action"] = "create" THEN
           LET tensor == TensorFromJson(SelectSeq(line, LAMBDA p : p[1] # "action"))
               ref == Len(tm.heap) + 1
           IN Result([tm2 EXCEPT !.heap = Append(tm.heap, tensor),
                                 !.store = [id \in DOMAIN tm.store \cup {d0["tensor_id"]} |->
                                     IF id = d0["tensor_id"] THEN ref ELSE tm.store[id]]],
                     "", None)
       ELSE IF d0["action"] # "update" THEN Result(tm, "RuntimeError", None)
       ELSE IF d0["tensor_id"] \notin DOMAIN tm.store THEN Result(tm, "KeyError", None)
       ELSE LET ref == tm.store[d0["tensor_id"]]
                d2 == DictPop(DictPop(d0, "action"), "tensor_id")
            IN Result([tm2 EXCEPT !.heap[ref] =
                          [k \in DOMAIN tm.heap[ref] \cup DOMAIN d2 |->
                              IF k \in DOMAIN d2 THEN d2[k] ELSE tm.heap[ref][k]]],
                      "", None)

\* apply_json that skips an entry whose action it does not know
ApplyJsonSkipsUnknown(tm, line) ==
    LET d0 == JsonLoads(line)
    IN IF "action" \notin DOMAIN d0 THEN Result(tm, "KeyError", None)
       ELSE IF d0["action"] = "create" THEN
           LET tensor == TensorFromJson(SelectSeq(line, LAMBDA p : p[1] # "action"))
               ref == Len(tm.heap) + 1
           IN Result([tm EXCEPT !.heap = Append(tm.heap, tensor),
                                !.store = [id \in DOMAIN tm.store \cup {d0["tensor_id"]} |->
                                    IF id = d0["tensor_id"] THEN ref ELSE tm.store[id]]],
                     "", None)
       ELSE IF d0["action"] # "update" THEN Result(tm, "", None)
       ELSE IF d0["tensor_id"] \notin DOMAIN tm.store THEN Result(tm, "KeyError", None)
       ELSE LET ref == tm.store[d0["tensor_id"]]
                d2 == DictPop(DictPop(d0, "action"), "tensor_id")
            IN Result([tm EXCEPT !.heap[ref] =
                          [k \in DOMAIN tm.heap[ref] \cup DOMAIN d2 |->
                              IF k \in DOMAIN d2 THEN d2[k] ELSE tm.heap[ref][k]]],
                      "", None)

\* TensorManager.apply_json
ApplyJson(tm, line) ==
    LET d0 == JsonLoads(line)
    IN IF "action" \notin DOMAIN d0 THEN Result(tm, "KeyError", None)
       ELSE LET action == d0["action"]
                d == DictPop(d0, "action")
            IN IF action = "update" THEN
                   LET tensor_id == d["tensor_id"]
                       d2 == DictPop(d, "tensor_id")
                   IN IF DOMAIN d2 = {} THEN Result(tm, "", None)
                      ELSE IF tensor_id \notin DOMAIN tm.store
                      THEN Result(tm, "KeyError", None)
                      ELSE LET ref == tm.store[tensor_id]
                           IN Result([tm EXCEPT !.heap[ref] =
                                         [k \in DOMAIN tm.heap[ref] \cup DOMAIN d2 |->
                                             IF k \in DOMAIN d2 THEN d2[k] ELSE tm.heap[ref][k]]],
                                     "", None)
               ELSE IF action = "create" THEN
                   LET tensor_id == d["tensor_id"]
                       tensor == TensorFromJson(SelectSeq(line, LAMBDA p : p[1] # "action"))
                       ref == Len(tm.heap) + 1
                   IN Result([tm EXCEPT !.heap = Append(tm.heap, tensor),
                                        !.store = [id \in DOMAIN tm.store \cup {tensor_id} |->
                                            IF id = tensor_id THEN ref ELSE tm.store[id]]],
                             "", None)
               ELSE Result(tm, "RuntimeError", None)

RECURSIVE ApplyAuditLog(_, _)
\* TensorManager.apply_audit_log
ApplyAuditLog(tm, lines) ==
    IF lines = <<>> THEN Result(tm, "", None)
    ELSE LET r == ApplyJson(tm, Head(lines))
         IN IF r.raised # "" THEN r ELSE ApplyAuditLog(r.tm, Tail(lines))

\* ------------------------------------------------------------------ state
\* the manager of the running process
TM == [heap |-> heap, store |-> store, commands |-> commands,
       command_offset |-> command_offset]

\* Reference counting: a Tensor object that neither the dict nor a Command
\* refers to any more (after del self[tensor_id], after the clipping of
\* self.commands) is freed. The objects left keep their order of allocation.
Compact(tm) ==
    LET live == {tm.store[id] : id \in DOMAIN tm.store} \cup
                {tm.commands[i].self : i \in {j \in DOMAIN tm.commands :
                                                 tm.commands[j].do_method = "update"}}
        order == Sorted(live)
        rank(r) == Cardinality({q \in live : q <= r})
    IN [heap |-> [i \in 1..Len(order) |-> tm.heap[order[i]]],
        store |-> [id \in DOMAIN tm.store |-> rank(tm.store[id])],
        commands |-> [i \in DOMAIN tm.commands |->
                        IF tm.commands[i].do_method = "update"
                        THEN [tm.commands[i] EXCEPT !.self = rank(@)]
                        ELSE tm.commands[i]],
        command_offset |-> tm.command_offset]

\* the state after a call that ended with result r
Becomes(r, op) ==
    LET tm == Compact(r.tm)
    IN /\ heap' = tm.heap
       /\ store' = tm.store
       /\ commands' = tm.commands
       /\ command_offset' = tm.command_offset
       /\ ret' = [op |-> op, raised |-> r.raised, value |-> r.value]
       /\ inflight' = inflight

\* number of commands that are applied (not undone)
Applied(tm) == Len(tm.commands) + tm.command_offset

\* the threads of the server that handle requests
Threads == {1, 2}

\* a thread that handles no request
Idle ==
    [pc |-> "idle", op |-> "", cmd_index |-> 0, mutated |-> FALSE,
     cmd |-> Command("", "", 0, <<>>, <<>>)]

Init ==
    /\ heap = <<>>
    /\ store = <<>>
    /\ commands = <<>>
    /\ command_offset = 0
    /\ ret = [op |-> "__init__", raised |-> "", value |-> None]
    /\ files = <<>>
    /\ phase = "baseline"
    /\ session = 0
    /\ inflight = [t \in Threads |-> Idle]

\* ------------------------------------------------------------------ pipeline
\* get_tensors: one create_tensor of the loop, each tensor under its own id
GetTensorsCreate ==
    /\ phase = "baseline"
    /\ \E tensor_id \in BaselineIds \ DOMAIN store,
          centroid \in SegmentedCentroids, marker \in SegmentedMarkers :
          Becomes(CreateTensor(TM, tensor_id, centroid, marker, "automated"), "create_tensor")
    /\ UNCHANGED <<files, phase, session>>

\* analyse: write the baseline snapshot raw_tensors.txt
Analyse ==
    /\ phase = "baseline"
    /\ files' = (RAW_TENSORS_FNAME :> WriteRawTensors(TM)) @@ files
    /\ phase' = "edit"
    /\ ret' = [op |-> "write_raw_tensors", raised |-> "", value |-> None]
    /\ UNCHANGED <<heap, store, commands, command_offset, session, inflight>>

\* ------------------------------------------------------------------ edits through the API
DoAddTensor ==
    /\ phase = "edit"
    /\ Applied(TM) < MaxCmds
    /\ \E centroid \in Centroids, marker \in Markers :
          Becomes(AddTensor(TM, centroid, marker), "add_tensor")
    /\ UNCHANGED <<files, phase, session>>

DoInactivateTensor ==
    /\ phase = "edit"
    /\ Applied(TM) < MaxCmds
    /\ \E tensor_id \in RequestIds :
          Becomes(InactivateTensor(TM, tensor_id), "inactivate_tensor")
    /\ UNCHANGED <<files, phase, session>>

DoUpdateCentroid ==
    /\ phase = "edit"
    /\ Applied(TM) < MaxCmds
    /\ \E tensor_id \in RequestIds, new_position \in Centroids :
          Becomes(UpdateCentroid(TM, tensor_id, new_position), "update_centroid")
    /\ UNCHANGED <<files, phase, session>>

DoUpdateMarker ==
    /\ phase = "edit"
    /\ Applied(TM) < MaxCmds
    /\ \E tensor_id \in RequestIds, new_position \in Markers :
          Becomes(UpdateMarker(TM, tensor_id, new_position), "update_marker")
    /\ UNCHANGED <<files, phase, session>>

DoUndo ==
    /\ phase = "edit"
    /\ Becomes(Undo(TM), "undo")
    /\ UNCHANGED <<files, phase, session>>

DoRedo ==
    /\ phase = "edit"
    /\ Becomes(Redo(TM), "redo")
    /\ UNCHANGED <<files, phase, session>>

Next ==
    \/ GetTensorsCreate
    \/ Analyse
    \/ DoAddTensor
    \/ DoInactivateTensor
    \/ DoUpdateCentroid
    \/ DoUpdateMarker
    \/ DoUndo
    \/ DoRedo

Spec == Init /\ [][Next]_vars

\* ------------------------------------------------------------------ the API with direct creation
\* the ids of the records that create_tensor inserted
Automated(tm) ==
    {id \in DOMAIN tm.store : tm.heap[tm.store[id]]["creation_type"] = "automated"}

\* Ids a caller of the API may pass to create_tensor between edits.
DirectIds == {Max(BaselineIds) + 1, Max(BaselineIds) + 2}

\* create_tensor called by the caller between edits, as test_overall_api
\* does, under an id that the store does not hold
DoCreateTensor ==
    /\ phase = "edit"
    /\ \E tensor_id \in DirectIds \ DOMAIN store,
          centroid \in SegmentedCentroids, marker \in SegmentedMarkers :
          Becomes(CreateTensor(TM, tensor_id, centroid, marker, "automated"), "create_tensor")
    /\ UNCHANGED <<files, phase, session>>

\* the calls that insert and remove records (add_tensor, create_tensor, undo,
\* redo), with inactivate_tensor as the edit of a record between them
NextApi ==
    \/ GetTensorsCreate
    \/ Analyse
    \/ DoAddTensor
    \/ DoInactivateTensor
    \/ DoUndo
    \/ DoRedo
    \/ DoCreateTensor

SpecApi == Init /\ [][NextApi]_vars

\* ------------------------------------------------------------------ the edit service
\* webapp.write_audit_log after a call that ended with result r: the file is
\* opened with mode "w" and the manager's audit log written to it. A call
\* that raised leaves the handler before the write.
AuditFileAfter(r) ==
    IF r.raised = "" THEN (AUDIT_LOG_FNAME :> WriteAuditLog(r.tm)) @@ files
    ELSE files

\* webapp __main__: a new manager reads raw_tensors.txt and applies audit.log
\* if that file exists
StartUp(dir) ==
    LET tensor_manager == ReadRawTensors(NewManager(<<>>), dir[RAW_TENSORS_FNAME])
    IN IF AUDIT_LOG_FNAME \in DOMAIN dir
       THEN ApplyAuditLog(tensor_manager, dir[AUDIT_LOG_FNAME])
       ELSE Result(tensor_manager, "", None)

\* The edit service is started over the directory (a running one was stopped
\* before): the process starts with a new heap.
WebStart ==
    /\ phase \in {"edit", "serving"}
    /\ session < MaxSessions
    /\ RAW_TENSORS_FNAME \in DOMAIN files
    /\ StartUp(files).raised = ""
    /\ Becomes(StartUp(files), "__main__")
    /\ phase' = "serving"
    /\ session' = session + 1
    /\ UNCHANGED files

WebInactivateTensor ==
    /\ phase = "serving"
    /\ Applied(TM) < MaxCmds
    /\ \E tensor_id \in RequestIds :
          LET r == InactivateTensor(TM, tensor_id)
          IN Becomes(r, "inactivate_tensor") /\ files' = AuditFileAfter(r)
    /\ UNCHANGED <<phase, session>>

WebUpdateMarker ==
    /\ phase = "serving"
    /\ Applied(TM) < MaxCmds
    /\ \E tensor_id \in RequestIds, yx \in Markers :
          LET r == UpdateMarker(TM, tensor_id, yx)
          IN Becomes(r, "update_marker") /\ files' = AuditFileAfter(r)
    /\ UNCHANGED <<phase, session>>

WebUpdateCentroid ==
    /\ phase = "serving"
    /\ Applied(TM) < MaxCmds
    /\ \E tensor_id \in RequestIds, yx \in Centroids :
          LET r == UpdateCentroid(TM, tensor_id, yx)
          IN Becomes(r, "update_centroid") /\ files' = AuditFileAfter(r)
    /\ UNCHANGED <<phase, session>>

WebUndo ==
    /\ phase = "serving"
    /\ LET r == Undo(TM)
       IN Becomes(r, "undo") /\ files' = AuditFileAfter(r)
    /\ UNCHANGED <<phase, session>>

WebRedo ==
    /\ phase = "serving"
    /\ LET r == Redo(TM)
       IN Becomes(r, "redo") /\ files' = AuditFileAfter(r)
    /\ UNCHANGED <<phase, session>>

NextWeb ==
    \/ GetTensorsCreate
    \/ Analyse
    \/ WebStart
    \/ WebInactivateTensor
    \/ WebUpdateMarker
    \/ WebUpdateCentroid
    \/ WebUndo
    \/ WebRedo

SpecWeb == Init /\ [][NextWeb]_vars

\* ------------------------------------------------------------------ the edit service with a threaded server
\* app.run("0.0.0.0") leaves the choice between one thread and one thread
\* per request to the installed server, and the handlers take no lock: two
\* requests may be handled at once, and the interpreter may switch between
\* them. A handler is followed in three steps: the statements of the
\* manager method that only read (the lookup of the tensor, the guard of
\* undo/redo and cmd_index), the rest of the method, write_audit_log().

\* the manager after a step of a thread (no object is freed by an update)
SetManager(tm) ==
    /\ heap' = tm.heap
    /\ store' = tm.store
    /\ commands' = tm.commands
    /\ command_offset' = tm.command_offset

\* the thread that takes the next request: the first one that is free
\* (which thread it is makes no difference to the manager)
Free(t) ==
    /\ inflight[t].pc = "idle"
    /\ \A u \in Threads : u < t => inflight[u].pc # "idle"

\* the state after a step of thread t that leaves the manager as it is; the
\* response goes to the client of the thread (ret is the last call of the
\* main thread)
Step(t, local) ==
    /\ inflight' = [inflight EXCEPT ![t] = local]
    /\ UNCHANGED <<heap, store, commands, command_offset, ret, files, phase, session>>

\* __main__ under a server that handles requests in threads
ServeThreaded ==
    /\ phase = "edit"
    /\ session = 0
    /\ StartUp(files).raised = ""
    /\ Becomes(StartUp(files), "__main__")
    /\ phase' = "threaded"
    /\ session' = 1
    /\ UNCHANGED files

\* the locals of an update method after self[tensor_id] and Command(...),
\* Idle when the lookup raises KeyError and the request ends
UpdateLocals(op, tensor_id, name, value) ==
    IF tensor_id \notin DOMAIN store THEN Idle
    ELSE LET tensor == store[tensor_id]
             prev == IF name = "active" THEN TRUE ELSE heap[tensor][name]
         IN [Idle EXCEPT !.pc = "mutate", !.op = op,
                         !.cmd = Command("update", "update", tensor,
                                         <<name, value>>, <<name, prev>>)]

\* a request for inactivate_tensor has arrived
ReqInactivateTensor ==
    \E t \in Threads, tensor_id \in RequestIds :
        /\ phase = "threaded"
        /\ Free(t)
        /\ Applied(TM) < MaxCmds
        /\ Step(t, UpdateLocals("inactivate_tensor", tensor_id, "active", FALSE))

\* a request for update_marker has arrived
ReqUpdateMarker ==
    \E t \in Threads, tensor_id \in RequestIds, yx \in Markers :
        /\ phase = "threaded"
        /\ Free(t)
        /\ Applied(TM) < MaxCmds
        /\ Step(t, UpdateLocals("update_marker", tensor_id, "marker", yx))

\* a request for update_centroid has arrived
ReqUpdateCentroid ==
    \E t \in Threads, tensor_id \in RequestIds, yx \in Centroids :
        /\ phase = "threaded"
        /\ Free(t)
        /\ Applied(TM) < MaxCmds
        /\ Step(t, UpdateLocals("update_centroid", tensor_id, "centroid", yx))

\* a request for undo has arrived: cmd_index and the guard of undo()
ReqUndo ==
    \E t \in Threads :
        /\ phase = "threaded"
        /\ Free(t)
        /\ LET cmd_index == -1 + command_offset
           IN IF Len(commands) + cmd_index < 0
              THEN Step(t, [Idle EXCEPT !.pc = "write", !.op = "undo"])
              ELSE Step(t, [Idle EXCEPT !.pc = "mutate", !.op = "undo",
                                        !.cmd_index = cmd_index])

\* a request for redo has arrived: the guard of redo() and cmd_index
ReqRedo ==
    \E t \in Threads :
        /\ phase = "threaded"
        /\ Free(t)
        /\ IF command_offset >= 0
           THEN Step(t, [Idle EXCEPT !.pc = "write", !.op = "redo"])
           ELSE Step(t, [Idle EXCEPT !.pc = "mutate", !.op = "redo",
                                     !.cmd_index = command_offset])

\* the rest of the manager method of the request of thread t: run_command
\* for an update, commands[cmd_index].undo() / .do() and the move of
\* command_offset for undo / redo (IndexError when another request has
\* clipped the history meanwhile)
MutateBy(tm, local) ==
    IF local.op \notin {"undo", "redo"} THEN RunCommand(tm, local.cmd)
    ELSE LET pos == PyIndex(tm.commands, local.cmd_index)
         IN IF pos \notin DOMAIN tm.commands THEN Result(tm, "IndexError", None)
            ELSE IF local.op = "undo"
            THEN LET r == CommandUndo(tm, pos)
                 IN Result([r.tm EXCEPT !.command_offset = @ - 1], r.raised, r.value)
            ELSE LET r == CommandDo(tm, pos)
                 IN Result([r.tm EXCEPT !.command_offset = @ + 1], r.raised, r.value)

ReqMutate ==
    \E t \in Threads :
        /\ phase = "threaded"
        /\ inflight[t].pc = "mutate"
        /\ inflight[t].op \in {"undo", "redo"} \/ Applied(TM) < MaxCmds
        /\ LET r == MutateBy(TM, inflight[t])
           IN /\ SetManager(r.tm)
              /\ ret' = ret
              /\ inflight' = [inflight EXCEPT ![t] =
                                 IF r.raised # "" THEN Idle
                                 ELSE [@ EXCEPT !.pc = "write", !.mutated = TRUE]]
        /\ UNCHANGED <<files, phase, session>>

\* webapp.write_audit_log by thread t: the file is opened with mode "w"; the
\* audit_log property raises IndexError when command_offset is positive,
\* and the file stays empty
ReqWrite ==
    \E t \in Threads :
        /\ phase = "threaded"
        /\ inflight[t].pc = "write"
        /\ files' = (AUDIT_LOG_FNAME :> (IF command_offset > 0 THEN <<>>
                                         ELSE WriteAuditLog(TM))) @@ files
        /\ inflight' = [inflight EXCEPT ![t] = Idle]
        /\ UNCHANGED <<heap, store, commands, command_offset, ret, phase, session>>

NextThreaded ==
    \/ GetTensorsCreate
    \/ Analyse
    \/ ServeThreaded
    \/ ReqInactivateTensor
    \/ ReqUpdateMarker
    \/ ReqUpdateCentroid
    \/ ReqUndo
    \/ ReqRedo
    \/ ReqMutate
    \/ ReqWrite

SpecThreaded == Init /\ [][NextThreaded]_vars

\* ------------------------------------------------------------------ calls as values
\* the edit calls of the API over the inputs of the model
EditCalls ==
    {[op |-> "add_tensor", tensor_id |-> 0, centroid |-> c, marker |-> m] :
        c \in Centroids, m \in Markers}
    \cup {[op |-> "inactivate_tensor", tensor_id |-> id, centroid |-> <<0, 0>>,
           marker |-> <<3, 5>>] : id \in RequestIds}
    \cup {[op |-> "update_centroid", tensor_id |-> id, centroid |-> c,
           marker |-> <<3, 5>>] : id \in RequestIds, c \in Centroids}
    \cup {[op |-> "update_marker", tensor_id |-> id, centroid |-> <<0, 0>>,
           marker |-> m] : id \in RequestIds, m \in Markers}

\* the call made on the manager
ApplyCall(tm, call) ==
    IF call.op = "add_tensor" THEN AddTensor(tm, call.centroid, call.marker)
    ELSE IF call.op = "inactivate_tensor" THEN InactivateTensor(tm, call.tensor_id)
    ELSE IF call.op = "update_centroid" THEN UpdateCentroid(tm, call.tensor_id, call.centroid)
    ELSE UpdateMarker(tm, call.tensor_id, call.marker)

RECURSIVE RunCalls(_, _)
\* the calls made one after the other, up to the first that raises
RunCalls(tm, calls) ==
    IF calls = <<>> THEN Result(tm, "", None)
    ELSE LET r == ApplyCall(tm, Head(calls))
         IN IF r.raised # "" \/ Len(calls) = 1 THEN r ELSE RunCalls(r.tm, Tail(calls))

RECURSIVE UndoTimes(_, _)
\* undo() called n times
UndoTimes(tm, n) == IF n = 0 THEN tm ELSE UndoTimes(Undo(tm).tm, n - 1)

\* the sequences of 1..n edit calls
CallSeqs(n) == UNION {[1..k -> EditCalls] : k \in 1..n}

\* the manager a new process gets from a snapshot and a log
Reconstruct(snapshot, log) ==
    ApplyAuditLog(ReadRawTensors(NewManager(<<>>), snapshot), log)

IsPrefix(a, b) == Len(a) <= Len(b) /\ SubSeq(b, 1, Len(a)) = a

\* ------------------------------------------------------------------ claims

\* C1: from every reachable state, after n >= 1 successful add_tensor /
\* update_centroid / update_marker / inactivate_tensor calls (any targets, an
\* already inactive record included), n calls of undo() leave the records
\* (ids and all fields) equal to the records before the calls.
C1_UndoRestoresRecords ==
    \A calls \in CallSeqs(MaxCmds) :
        LET r == RunCalls(TM, calls)
        IN r.raised = "" => Records(UndoTimes(r.tm, Len(calls))) = Records(TM)

\* C2: in every reachable state with at least one applied command, undo()
\* followed by redo() leaves the records, the commands list and
\* command_offset as they were before the undo().
C2_UndoRedoRoundTrip ==
    Applied(TM) > 0 =>
        LET u == Undo(TM)
            r == Redo(u.tm)
        IN /\ u.raised = "" /\ r.raised = ""
           /\ Records(r.tm) = Records(TM)
           /\ r.tm.commands = commands
           /\ r.tm.command_offset = command_offset

\* C2 witness: a redo() has re-executed a command that an undo() had undone.
C2_Witness ==
    /\ ret.op = "redo" /\ ret.value # None
    /\ Applied(TM) > 0
    /\ Redo(Undo(TM).tm).tm.commands = commands

\* C3: at any moment, the manager that reads the snapshot written by
\* write_raw_tensors and applies the log written by write_audit_log, both
\* written at that moment, is equal to the live manager.
C3_SnapshotAndLogRebuildLive ==
    LET r == Reconstruct(WriteRawTensors(TM), WriteAuditLog(TM))
    IN r.raised = "" /\ ManagerEq(TM, r.tm)

\* C4: with the baseline snapshot written before any edit, after any later
\* sequence of edits, undos and redos the manager that reads that snapshot
\* and applies the log written at the end is equal to the live manager.
C4_BaselineAndLogRebuildLive ==
    phase = "edit" =>
        LET r == Reconstruct(files[RAW_TENSORS_FNAME], WriteAuditLog(TM))
        IN r.raised = "" /\ ManagerEq(TM, r.tm)

\* C5: whenever a session of the edit service may end, a start-up over the
\* directory reconstructs a store equal to the live store of that session.
C5_RestartRebuildsLive ==
    phase = "serving" =>
        LET r == StartUp(files)
        IN r.raised = "" /\ ManagerEq(TM, r.tm)

\* C6: every write of audit.log by the edit service appends: the entries in
\* the file before the write are still there afterwards, in the same order.
AuditFileKept ==
    AUDIT_LOG_FNAME \in DOMAIN files =>
        (AUDIT_LOG_FNAME \in DOMAIN files'
         /\ IsPrefix(files[AUDIT_LOG_FNAME], files'[AUDIT_LOG_FNAME]))

C6_AuditLogAppendOnly == [][AuditFileKept]_vars

\* C7: a new command issued successfully while command_offset is negative
\* removes the undone commands: commands becomes the applied prefix followed
\* by the new command, command_offset becomes 0, and the next redo() returns
\* None and changes nothing.
C7_NewCommandDiscardsUndone ==
    command_offset < 0 =>
        \A call \in EditCalls :
            LET r == ApplyCall(TM, call)
                n == Applied(TM)
            IN r.raised = "" =>
                /\ Len(r.tm.commands) = n + 1
                /\ SubSeq(r.tm.commands, 1, n) = SubSeq(commands, 1, n)
                /\ r.value # None
                /\ r.tm.commands[n + 1].audit_log = r.value
                /\ r.tm.command_offset = 0
                /\ Redo(r.tm) = Result(r.tm, "", None)

\* C7 witness: commands are undone and a new command that succeeds drops
\* them from the history.
C7_Witness ==
    /\ ret.op = "undo"
    /\ command_offset < -1
    /\ \E call \in EditCalls :
          LET r == ApplyCall(TM, call)
          IN r.raised = "" /\ Len(r.tm.commands) < Len(commands)

\* C8: undo() with no applied command left (an empty history included)
\* returns None, raises nothing and leaves records, commands and
\* command_offset unchanged.
C8_UndoWithNothingApplied ==
    Applied(TM) = 0 => Undo(TM) = Result(TM, "", None)

\* C8 witness: every command of a non-empty history is undone and the last
\* undo() returned None (the undo of an update returns its json).
C8_Witness ==
    /\ ret.op = "undo" /\ ret.value = None /\ ret.raised = ""
    /\ Len(commands) > 0 /\ Applied(TM) = 0
    /\ \A i \in DOMAIN commands : commands[i].undo_method = "update"

\* C9: redo() with command_offset = 0 returns None, raises nothing and
\* leaves records, commands and command_offset unchanged.
C9_RedoWithNothingUndone ==
    command_offset = 0 => Redo(TM) = Result(TM, "", None)

\* C9 witness: redo() returned None on a history whose commands are all
\* applied (a redo that re-executes a command returns its json).
C9_Witness ==
    /\ ret.op = "redo" /\ ret.value = None /\ ret.raised = ""
    /\ Len(commands) > 0 /\ command_offset = 0

\* C10: inactivate_tensor, update_centroid and update_marker called with an
\* id that is not in the store raise an error; none returns normally.
C10_UnknownIdRaises ==
    \A tensor_id \in RequestIds \ DOMAIN store :
        /\ InactivateTensor(TM, tensor_id).raised = "KeyError"
        /\ \A c \in Centroids : UpdateCentroid(TM, tensor_id, c).raised = "KeyError"
        /\ \A m \in Markers : UpdateMarker(TM, tensor_id, m).raised = "KeyError"

\* C10 witness: an edit call on an id that is not in the store has raised.
C10_Witness ==
    /\ ret.op \in {"inactivate_tensor", "update_centroid", "update_marker"}
    /\ ret.raised = "KeyError"
    /\ DOMAIN store # {}

\* C11: add_tensor on a store that is not empty inserts exactly one record,
\* under the id max(ids) + 1, with the given centroid and marker,
\* creation_type "manual" and active true; the records that were there are
\* unchanged; the command is the last of the history with nothing undone,
\* so that undo() removes that id again and redo() puts the record back.
C11_AddTensorInsertsNextId ==
    DOMAIN store # {} =>
        \A centroid \in Centroids, marker \in Markers :
            LET r == AddTensor(TM, centroid, marker)
                new == Max(DOMAIN store) + 1
                u == Undo(r.tm)
                v == Redo(u.tm)
            IN /\ r.raised = ""
               /\ DOMAIN r.tm.store = DOMAIN store \cup {new}
               /\ Records(r.tm)[new] = Tensor(new, centroid, marker, "manual")
               /\ \A id \in DOMAIN store : Records(r.tm)[id] = Records(TM)[id]
               /\ Len(r.tm.commands) = Applied(TM) + 1
               /\ r.tm.command_offset = 0
               /\ u.raised = "" /\ Records(u.tm) = Records(TM)
               /\ v.raised = "" /\ Records(v.tm) = Records(r.tm)

\* C11 witness: add_tensor has returned on a store whose ids have a gap (the
\* count of the ids is not their maximum) and has numbered the new record
\* after the maximum.
C11_Witness ==
    /\ ret.op = "add_tensor" /\ ret.raised = ""
    /\ command_offset = 0
    /\ \E id \in DOMAIN store :
          /\ id = Max(DOMAIN store)
          /\ id > Cardinality(DOMAIN store)
          /\ heap[store[id]]["creation_type"] = "manual"
          /\ commands[Len(commands)].do_args[1] = id

\* Python's == between a returned value and an int: a str (a json text) and
\* an int are never equal; two values are equal when they are written alike
PyEq(a, b) == ToString(a) = ToString(b)

\* C12: the value add_tensor returns is the id it gave to the new record,
\* max(ids) + 1 of the ids before the call, and is a key of the store.
C12_AddTensorReturnsId ==
    DOMAIN store # {} =>
        \A centroid \in Centroids, marker \in Markers :
            LET r == AddTensor(TM, centroid, marker)
            IN /\ r.raised = ""
               /\ r.value # None
               /\ PyEq(r.value[1], Max(DOMAIN store) + 1)
               /\ \E id \in DOMAIN r.tm.store : PyEq(r.value[1], id)

\* C13: add_tensor on an empty store raises an error: no record is
\* inserted, no command is pushed and command_offset is unchanged.
C13_AddTensorOnEmptyStoreRaises ==
    DOMAIN store = {} =>
        \A centroid \in Centroids, marker \in Markers :
            LET r == AddTensor(TM, centroid, marker)
            IN /\ r.raised = "ValueError"
               /\ r.value = None
               /\ r.tm.store = store
               /\ r.tm.heap = heap
               /\ r.tm.commands = commands
               /\ r.tm.command_offset = command_offset

\* C13 witness: add_tensor was called on an empty store and has raised.
C13_Witness ==
    /\ ret.op = "add_tensor" /\ ret.raised = "ValueError"
    /\ DOMAIN store = {}
    /\ phase = "edit"

\* the audit entry of a command of the history: what its do method logs
EntryOf(tm, cmd) ==
    IF cmd.do_method = "create_tensor"
    THEN CreateTensor(tm, cmd.do_args[1], cmd.do_args[2], cmd.do_args[3],
                      cmd.do_args[4]).value[1]
    ELSE LET d == [tensor_id |-> tm.heap[cmd.self]["tensor_id"], action |-> "update"]
             name == cmd.do_args[1]
         IN JsonDumps([k \in DOMAIN d \cup {name} |->
                          IF k = name THEN cmd.do_args[2] ELSE d[k]],
                      <<"tensor_id", "action", name>>)

\* C14: write_audit_log writes len(commands) + command_offset entries: the
\* i-th entry is the entry of the i-th command of the history, for the
\* commands of the applied prefix, and nothing is written for an undone one.
C14_AuditLogIsAppliedPrefix ==
    LET log == WriteAuditLog(TM)
    IN /\ Len(log) = Len(commands) + command_offset
       /\ \A i \in 1..Len(log) :
             /\ commands[i].audit_log = Some(log[i])
             /\ log[i] = EntryOf(TM, commands[i])

\* C14 witness: one command is applied and a later one is undone, and the
\* log written has the entry of the first only.
C14_Witness ==
    /\ ret.op = "undo" /\ ret.raised = ""
    /\ command_offset < 0
    /\ Applied(TM) > 0
    /\ Len(WriteAuditLog(TM)) = Applied(TM)
    /\ commands[Len(commands)].audit_log # None

\* the entries of audit.log in a directory (none when the file is not there)
AuditEntries(dir) ==
    IF AUDIT_LOG_FNAME \in DOMAIN dir THEN dir[AUDIT_LOG_FNAME] ELSE <<>>

\* the requests of the edit service that change the store
MutatingRequests ==
    {"inactivate_tensor", "update_marker", "update_centroid", "undo", "redo"}

\* C15: in a session of the edit service, after every mutating request
\* (one that succeeded, one that was a no-op, one that failed on an unknown
\* id) the entries of audit.log are the audit entries of the applied prefix
\* of the history of the store, in order.
C15_LogOnDiskIsAppliedPrefix ==
    (phase = "serving" /\ ret.op \in MutatingRequests) =>
        AuditEntries(files) = WriteAuditLog(TM)

\* C16: the edit service handles one mutating request at a time: never have
\* two requests both changed the store with neither having written the
\* log; command_offset stays within [-len(commands), 0]; and whenever no
\* request is in flight, the entries of audit.log are those of the applied
\* prefix of the history.
C16_RequestsSerialized ==
    phase = "threaded" =>
        /\ Cardinality({t \in Threads : inflight[t].pc = "write" /\ inflight[t].mutated}) <= 1
        /\ -Len(commands) <= command_offset /\ command_offset <= 0
        /\ (\A t \in Threads : inflight[t].pc = "idle") =>
               AuditEntries(files) = WriteAuditLog(TM)

RECURSIVE RedoTimes(_, _)
\* redo() called n times
RedoTimes(tm, n) == IF n = 0 THEN tm ELSE RedoTimes(Redo(tm).tm, n - 1)

\* C17: create_tensor inserts the record under the given id and leaves
\* commands and command_offset as they are, also when commands are undone;
\* and a record that create_tensor inserted is still in the store after any
\* later undo(), whatever redo() calls come before it.
C17_CreatedRecordOutsideHistory ==
    /\ \A tensor_id \in DirectIds \ DOMAIN store,
          centroid \in SegmentedCentroids, marker \in SegmentedMarkers :
          LET r == CreateTensor(TM, tensor_id, centroid, marker, "automated")
          IN /\ r.raised = ""
             /\ DOMAIN r.tm.store = DOMAIN store \cup {tensor_id}
             /\ Records(r.tm)[tensor_id] = Tensor(tensor_id, centroid, marker, "automated")
             /\ r.tm.commands = commands
             /\ r.tm.command_offset = command_offset
    /\ \A tensor_id \in Automated(TM) :
          \A j \in 0..(-command_offset) :
              \A k \in 1..(Len(commands) + command_offset + j) :
                  tensor_id \in DOMAIN UndoTimes(RedoTimes(TM, j), k).store

\* C18: read_raw_tensors and apply_audit_log change the records only: called
\* on the live manager with the snapshot and the log of the moment they
\* leave commands and command_offset as they are; and on the manager rebuilt
\* from snapshot and log, undo() and redo() return None and change nothing.
C18_ReplayBypassesHistory ==
    LET snapshot == WriteRawTensors(TM)
        log == WriteAuditLog(TM)
        read == ReadRawTensors(TM, snapshot)
        applied == ApplyAuditLog(TM, log)
        rebuilt == Reconstruct(snapshot, log)
    IN /\ read.commands = commands
       /\ read.command_offset = command_offset
       /\ applied.tm.commands = commands
       /\ applied.tm.command_offset = command_offset
       /\ rebuilt.tm.commands = <<>>
       /\ rebuilt.tm.command_offset = 0
       /\ Undo(rebuilt.tm) = Result(rebuilt.tm, "", None)
       /\ Redo(rebuilt.tm) = Result(rebuilt.tm, "", None)

\* C18 witness: a log with a create entry, read while a command is undone,
\* rebuilds records that differ from the snapshot's (the entry was applied)
\* into a manager with an empty history.
C18_Witness ==
    /\ command_offset < 0
    /\ \E i \in 1..Applied(TM) : commands[i].do_method = "create_tensor"
    /\ LET rebuilt == Reconstruct(WriteRawTensors(TM), WriteAuditLog(TM))
       IN /\ rebuilt.raised = ""
          /\ Records(rebuilt.tm) # Records(ReadRawTensors(NewManager(<<>>), WriteRawTensors(TM)))
          /\ rebuilt.tm.commands = <<>>

\* log entries whose action is neither "create" nor "update": the entry that
\* _delete_tensor builds, and one with another word
OtherActionEntries ==
    {JsonDumps([tensor_id |-> id, action |-> a], <<"tensor_id", "action">>) :
        id \in RequestIds, a \in {"delete", "remove"}}

\* the log with the entry put in after its first k entries
WithEntryAt(log, k, entry) ==
    SubSeq(log, 1, k) \o <<entry>> \o SubSeq(log, k + 1, Len(log))

\* C19: apply_audit_log raises an error when it comes to an entry whose
\* action is neither "create" nor "update", wherever the entry is in the
\* log: the entries before it are applied, the entry is not skipped and no
\* entry after it is applied.
C19_UnknownActionRaises ==
    phase = "edit" =>
        LET snapshot == files[RAW_TENSORS_FNAME]
            log == WriteAuditLog(TM)
        IN \A entry \in OtherActionEntries, k \in 0..Len(log) :
               LET r == Reconstruct(snapshot, WithEntryAt(log, k, entry))
                   before == Reconstruct(snapshot, SubSeq(log, 1, k))
               IN /\ r.raised = "RuntimeError"
                  /\ before.raised = ""
                  /\ r.tm = before.tm
                  /\ ApplyJson(TM, entry) = Result(TM, "RuntimeError", None)

\* C19 witness: a log of two entries replays, and with a "delete" entry
\* between them the replay raises after the first entry has been applied.
C19_Witness ==
    /\ phase = "edit"
    /\ Applied(TM) = 2
    /\ LET snapshot == files[RAW_TENSORS_FNAME]
           log == WriteAuditLog(TM)
       IN /\ Reconstruct(snapshot, log).raised = ""
          /\ \E entry \in OtherActionEntries :
                LET r == Reconstruct(snapshot, WithEntryAt(log, 1, entry))
                IN /\ entry[2][2] = "delete"
                   /\ r.raised = "RuntimeError"
                   /\ Records(r.tm) # Records(Reconstruct(snapshot, <<>>).tm)
                   /\ Records(r.tm) # Records(Reconstruct(snapshot, log).tm)

\* C20: the lines of write_raw_tensors, read by read_raw_tensors into an
\* empty manager, give the records of the writer whose creation_type is
\* "automated" and no other: one line each, every field (centroid, marker
\* and active included) as the writer has it; no "manual" record is there.
C20_RawTensorsRoundTrip ==
    LET lines == WriteRawTensors(TM)
        reader == ReadRawTensors(NewManager(<<>>), lines)
    IN /\ Len(lines) = Cardinality(Automated(TM))
       /\ DOMAIN reader.store = Automated(TM)
       /\ \A id \in Automated(TM) : Records(reader)[id] = Records(TM)[id]
       /\ \A id \in DOMAIN reader.store :
             Records(reader)[id]["creation_type"] = "automated"

\* C20 witness: the writer holds a manual record and an automated record
\* that an edit has made inactive.
C20_Witness ==
    /\ ret.op = "inactivate_tensor" /\ ret.raised = ""
    /\ \E id \in DOMAIN store : heap[store[id]]["creation_type"] = "manual"
    /\ \E id \in Automated(TM) : ~heap[store[id]]["active"]

\* the ids that the add_tensor commands of the history have assigned
AssignedIds(tm) ==
    {tm.commands[i].do_args[1] :
        i \in {j \in DOMAIN tm.commands : tm.commands[j].do_method = "create_tensor"}}

\* C21: an id that an add_tensor of the history has assigned to a record
\* (the add may be undone since) is not assigned again by a later
\* add_tensor.
C21_IdsNotReassigned ==
    \A centroid \in Centroids, marker \in Markers :
        LET r == AddTensor(TM, centroid, marker)
        IN r.raised = "" =>
              \A id \in DOMAIN r.tm.store \ DOMAIN store : id \notin AssignedIds(TM)

\* C22: once the baseline is made, no add_tensor / inactivate_tensor /
\* update_centroid / update_marker / undo / redo changes the set of the ids
\* of the automated records, and a call that takes a record out of the
\* store is the undo of an add_tensor command, which takes out the manual
\* record of the id that command assigned and no other.
C22_AutomatedRecordsStay ==
    phase = "edit" =>
        /\ \A call \in EditCalls :
              LET r == ApplyCall(TM, call)
              IN /\ Automated(r.tm) = Automated(TM)
                 /\ DOMAIN store \subseteq DOMAIN r.tm.store
        /\ LET r == Redo(TM)
           IN /\ Automated(r.tm) = Automated(TM)
              /\ DOMAIN store \subseteq DOMAIN r.tm.store
        /\ LET r == Undo(TM)
               removed == DOMAIN store \ DOMAIN r.tm.store
           IN /\ Automated(r.tm) = Automated(TM)
              /\ removed # {} =>
                    LET cmd == commands[Applied(TM)]
                    IN /\ cmd.do_method = "create_tensor"
                       /\ removed = {cmd.do_args[1]}
                       /\ Records(TM)[cmd.do_args[1]]["creation_type"] = "manual"

\* C22 witness: an undo has taken the manual record of an add_tensor out of
\* a store that holds an automated record, which an edit had changed.
C22_Witness ==
    /\ ret.op = "undo" /\ ret.raised = ""
    /\ command_offset = -1
    /\ commands[Len(commands)].do_method = "create_tensor"
    /\ commands[Len(commands)].do_args[1] \notin DOMAIN store
    /\ \E id \in Automated(TM) : ~heap[store[id]]["active"]

\* C23: for every tensor of the store, in every state the store can put it
\* in, from_json of its json is equal (Tensor.__eq__) to the tensor.
C23_TensorJsonRoundTrip ==
    \A ref \in DOMAIN heap :
        TensorEq(TensorFromJson(TensorJson(heap[ref])), heap[ref])

\* C23 witness: the store holds a manual tensor that an edit has made
\* inactive, with a centroid and a marker other than the baseline's.
C23_Witness ==
    /\ ret.op = "inactivate_tensor" /\ ret.raised = ""
    /\ \E id \in DOMAIN store :
          /\ heap[store[id]]["creation_type"] = "manual"
          /\ ~heap[store[id]]["active"]
          /\ heap[store[id]]["centroid"] = <<1, 10>>
          /\ heap[store[id]]["marker"] = <<100, 8>>

\* C24: for every k from 1 to the number of applied commands, k calls of
\* undo() followed by k calls of redo() leave the records as they were
\* before the first undo, also when the commands undone are an add_tensor
\* and edits of the record it created.
C24_UndosThenRedosRestore ==
    \A k \in 1..Applied(TM) :
        Records(RedoTimes(UndoTimes(TM, k), k)) = Records(TM)

\* the bounds of command_offset in a manager
OffsetInRange(tm) ==
    -Len(tm.commands) <= tm.command_offset /\ tm.command_offset <= 0

\* C25: in every reachable state -len(commands) <= command_offset <= 0, and
\* every call of the API made in it (create_tensor, add_tensor,
\* inactivate_tensor, update_centroid, update_marker, undo, redo; one that
\* fails or does nothing included) leaves a manager of which that is true.
C25_OffsetInRange ==
    /\ OffsetInRange(TM)
    /\ \A call \in EditCalls : OffsetInRange(ApplyCall(TM, call).tm)
    /\ OffsetInRange(Undo(TM).tm)
    /\ OffsetInRange(Redo(TM).tm)
    /\ \A tensor_id \in DirectIds \ DOMAIN store,
          centroid \in SegmentedCentroids, marker \in SegmentedMarkers :
          OffsetInRange(CreateTensor(TM, tensor_id, centroid, marker, "automated").tm)

\* C25 witness: every command of a full history is undone
\* (command_offset = -len(commands)) and a further undo() has done nothing.
C25_Witness ==
    /\ ret.op = "undo" /\ ret.value = None
    /\ Len(commands) = MaxCmds
    /\ command_offset = -Len(commands)
    /\ commands[1].do_method = "update"
    /\ commands[1].do_args[1] = "centroid"

\* C26: an undo() that undoes a command lowers command_offset by exactly 1,
\* a redo() that re-executes a command raises it by exactly 1, and neither
\* changes the commands list (the same commands in the same order).
C26_UndoRedoMoveOffsetByOne ==
    /\ Applied(TM) > 0 =>
          LET r == Undo(TM)
          IN /\ r.raised = ""
             /\ r.tm.command_offset = command_offset - 1
             /\ r.tm.commands = commands
    /\ command_offset < 0 =>
          LET r == Redo(TM)
          IN /\ r.raised = ""
             /\ r.tm.command_offset = command_offset + 1
             /\ r.tm.commands = commands

\* C26 witness: a redo() has re-executed the first of two undone commands:
\* one command is applied again and one is still undone.
C26_Witness ==
    /\ ret.op = "redo" /\ ret.raised = "" /\ ret.value # None
    /\ Len(commands) = 2
    /\ command_offset = -1

\* C27: inactivate_tensor, update_centroid and update_marker that fail on
\* an id that is not in the store leave the manager as it was: the records,
\* the commands list (the undone commands still there) and command_offset.
C27_FailedEditChangesNothing ==
    \A tensor_id \in RequestIds \ DOMAIN store :
        /\ InactivateTensor(TM, tensor_id) = Result(TM, "KeyError", None)
        /\ \A c \in Centroids :
              UpdateCentroid(TM, tensor_id, c) = Result(TM, "KeyError", None)
        /\ \A m \in Markers :
              UpdateMarker(TM, tensor_id, m) = Result(TM, "KeyError", None)

\* C27 witness: an edit of an id that is not in the store has failed while
\* a command was undone, and the undone command is still in the history.
C27_Witness ==
    /\ ret.op \in {"inactivate_tensor", "update_centroid", "update_marker"}
    /\ ret.raised = "KeyError"
    /\ command_offset < 0
    /\ Applied(TM) > 0

\* C28: the log that write_audit_log writes from a manager built from the
\* baseline replays onto the baseline records without an error: every entry
\* has an action, "create" or "update", and every update entry is for an id
\* of the baseline or of an earlier create entry of the log.
C28_WrittenLogReplays ==
    phase = "edit" =>
        LET snapshot == files[RAW_TENSORS_FNAME]
            log == WriteAuditLog(TM)
            baseline == DOMAIN ReadRawTensors(NewManager(<<>>), snapshot).store
            created(i) == {JsonLoads(log[j])["tensor_id"] :
                              j \in {n \in 1..(i - 1) : JsonLoads(log[n])["action"] = "create"}}
        IN /\ Reconstruct(snapshot, log).raised = ""
           /\ \A i \in 1..Len(log) :
                 LET d == JsonLoads(log[i])
                 IN /\ "action" \in DOMAIN d
                    /\ d["action"] \in {"create", "update"}
                    /\ d["action"] = "update" =>
                          d["tensor_id"] \in baseline \cup created(i)

\* C28 witness: the log holds the create entry of an add_tensor and, after
\* it, an update entry for the id created, and it replays.
C28_Witness ==
    /\ phase = "edit"
    /\ Applied(TM) = 2
    /\ commands[1].do_method = "create_tensor"
    /\ commands[2].do_method = "update"
    /\ heap[commands[2].self]["tensor_id"] = commands[1].do_args[1]
    /\ Reconstruct(files[RAW_TENSORS_FNAME], WriteAuditLog(TM)).raised = ""

\* C29: from every reachable state, each of the first len(commands) +
\* command_offset calls of undo() undoes a command (command_offset goes
\* down by one, nothing is raised) and the call after them returns None and
\* changes nothing; each of the first -command_offset calls of redo()
\* re-executes a command and the call after them returns None and changes
\* nothing.
C29_UndoRedoReachSentinel ==
    /\ \A k \in 1..Applied(TM) :
          LET before == UndoTimes(TM, k - 1)
              r == Undo(before)
          IN /\ r.raised = ""
             /\ r.tm.command_offset = command_offset - k
    /\ LET last == UndoTimes(TM, Applied(TM))
       IN Undo(last) = Result(last, "", None)
    /\ \A k \in 1..(-command_offset) :
          LET before == RedoTimes(TM, k - 1)
              r == Redo(before)
          IN /\ r.raised = ""
             /\ r.tm.command_offset = command_offset + k
    /\ LET last == RedoTimes(TM, -command_offset)
       IN Redo(last) = Result(last, "", None)

\* C29 witness: after the undo of an add_tensor and of an edit, the third
\* undo() has returned None and left everything as it was.
C29_Witness ==
    /\ ret.op = "undo" /\ ret.value = None /\ ret.raised = ""
    /\ Len(commands) = MaxCmds
    /\ Applied(TM) = 0
    /\ commands[1].do_method = "create_tensor"
    /\ store = <<1>>

\* C30: undo() followed by redo() stores on the command re-executed the
\* audit entry its first execution stored, and the log written afterwards
\* is the log written before the undo.
C30_RedoStoresSameEntry ==
    Applied(TM) > 0 =>
        LET n == Applied(TM)
            r == Redo(Undo(TM).tm)
        IN /\ r.raised = ""
           /\ r.tm.commands[n].audit_log # None
           /\ r.tm.commands[n].audit_log = commands[n].audit_log
           /\ r.value = commands[n].audit_log
           /\ WriteAuditLog(r.tm) = WriteAuditLog(TM)

\* C30 witness: a redo() has re-executed an add_tensor, which made a new
\* Tensor object, and an edit of another record is applied before it.
C30_Witness ==
    /\ ret.op = "redo" /\ ret.raised = "" /\ ret.value # None
    /\ command_offset = 0
    /\ Len(commands) = 2
    /\ commands[1].do_method = "update"
    /\ commands[2].do_method = "create_tensor"
    /\ ret.value = commands[2].audit_log

====
